---- MODULE Spec2Model ----
(***************************************************************************)
(* Model of password_generator.py: the PasswordGenerator class             *)
(* (generate_password, generate_multiple, calculate_strength,              *)
(* get_strength_label) and the interactive menu loop (get_int_input,       *)
(* get_yes_no, main).                                                      *)
(*                                                                         *)
(* A Python str is a sequence of one-character strings.  The module-level  *)
(* random generator is the variable rng: a periodic stream of raw draws,   *)
(* seeded nondeterministically, consumed one draw per random.choice.       *)
(***************************************************************************)
EXTENDS Integers, Sequences, FiniteSets, TLC

VARIABLES
    rng,       \* state of the `random` module: the stream of raw draws to come
    call,      \* the call made on the PasswordGenerator (operation and arguments)
    result,    \* what that call did: raised ValueError, or returned a value
    password,  \* the string handed to calculate_strength
    score,     \* the score handed to get_strength_label
    label,     \* the label get_strength_label returned
    stage,     \* how far the evaluation of password has come
    base,      \* the evaluation of the string that password extends
    pc,        \* where main() is: the prompt it waits at
    locals     \* main()'s live local variables

apiVars == <<rng, call, result>>
evalVars == <<password, score, label, stage, base>>
mainVars == <<pc, locals>>
vars == <<rng, call, result, password, score, label, stage, base, pc, locals>>

----------------------------------------------------------------------------
(* Bounds of the model *)

\* longest period of a raw-draw stream
MaxPeriod == 4
\* largest "short" password length tried by direct calls
MaxLen == 5
\* largest count passed to generate_multiple by direct calls
MaxCount == 2

----------------------------------------------------------------------------
(* Character classes: PasswordGenerator.__init__ *)

\* string.ascii_lowercase, string.ascii_uppercase, string.digits and
\* string.punctuation, each cut down to one representative character
lowercase == <<"a">>
uppercase == <<"A">>
digits == <<"0">>
special == <<"!">>

\* string.punctuation as used by calculate_strength and the tests
punctuation == special

Range(s) == {s[i] : i \in 1..Len(s)}

\* str.islower / str.isupper / str.isdigit on one character
islower(c) == c \in Range(lowercase)
isupper(c) == c \in Range(uppercase)
isdigit(c) == c \in Range(digits)
ispunct(c) == c \in Range(punctuation)

\* any(pred(c) for c in password), with pw for the argument
any_islower(pw) == \E i \in 1..Len(pw) : islower(pw[i])
any_isupper(pw) == \E i \in 1..Len(pw) : isupper(pw[i])
any_isdigit(pw) == \E i \in 1..Len(pw) : isdigit(pw[i])
any_ispunct(pw) == \E i \in 1..Len(pw) : ispunct(pw[i])

----------------------------------------------------------------------------
(* The random source *)

\* number of distinct raw draws: enough to select any character of the full pool
RawRange == Len(lowercase) + Len(uppercase) + Len(digits) + Len(special)

\* the seeds: every stream of raw draws of period 1..MaxPeriod
Seeds == UNION {[1..k -> 0..(RawRange - 1)] : k \in 1..MaxPeriod}

\* the stream after n draws have been consumed
Advance(r, n) == [i \in 1..Len(r) |-> r[((i - 1 + n) % Len(r)) + 1]]

\* the n-th draw to come (n = 1 is the next one)
Draw(r, n) == r[((n - 1) % Len(r)) + 1]

\* random.choice(seq) on the n-th draw to come
random_choice(seq, r, n) == seq[(Draw(r, n) % Len(seq)) + 1]

----------------------------------------------------------------------------
(* PasswordGenerator.generate_password *)

MinLength == 4

Raised(r) == [raised |-> TRUE, value |-> <<>>, rng |-> r]
Returned(v, r) == [raised |-> FALSE, value |-> v, rng |-> r]

\* characters with the use_uppercase test lost: uppercase always in the pool
characters_always_upper(use_uppercase, use_digits, use_special) ==
    lowercase
        \o uppercase
        \o (IF use_digits THEN digits ELSE <<>>)
        \o (IF use_special THEN special ELSE <<>>)

\* characters with a copy-paste slip: use_special adds the digits again
characters_special_as_digits(use_uppercase, use_digits, use_special) ==
    lowercase
        \o (IF use_uppercase THEN uppercase ELSE <<>>)
        \o (IF use_digits THEN digits ELSE <<>>)
        \o (IF use_special THEN digits ELSE <<>>)

\* the character pool built from the options
characters(use_uppercase, use_digits, use_special) ==
    lowercase
        \o (IF use_uppercase THEN uppercase ELSE <<>>)
        \o (IF use_digits THEN digits ELSE <<>>)
        \o (IF use_special THEN special ELSE <<>>)

\* generate_password with the length test off by one: length <= 4 rejected
generate_password_off_by_one(length, use_uppercase, use_digits, use_special, r) ==
    IF length <= MinLength
    THEN Raised(r)
    ELSE LET pool == characters(use_uppercase, use_digits, use_special)
         IN  Returned([i \in 1..length |-> random_choice(pool, r, i)], Advance(r, length))

generate_password(length, use_uppercase, use_digits, use_special, r) ==
    IF length < MinLength
    THEN Raised(r)
    ELSE LET pool == characters(use_uppercase, use_digits, use_special)
         IN  Returned([i \in 1..length |-> random_choice(pool, r, i)], Advance(r, length))

----------------------------------------------------------------------------
(* PasswordGenerator.generate_multiple *)

\* generate_multiple that drops an element equal to a later one (a set in place
\* of the list)
RECURSIVE generate_multiple_unique(_, _, _, _, _, _)
generate_multiple_unique(count, length, use_uppercase, use_digits, use_special, r) ==
    IF count <= 0
    THEN Returned(<<>>, r)
    ELSE LET first == generate_password(length, use_uppercase, use_digits, use_special, r)
         IN  IF first.raised
             THEN Raised(first.rng)
             ELSE LET rest == generate_multiple_unique(count - 1, length, use_uppercase,
                                                       use_digits, use_special, first.rng)
                  IN  IF rest.raised
                      THEN Raised(rest.rng)
                      ELSE IF first.value \in {rest.value[k] : k \in 1..Len(rest.value)}
                      THEN Returned(rest.value, rest.rng)
                      ELSE Returned(<<first.value>> \o rest.value, rest.rng)

\* generate_multiple that catches the ValueError and returns what it has
RECURSIVE generate_multiple_swallow(_, _, _, _, _, _)
generate_multiple_swallow(count, length, use_uppercase, use_digits, use_special, r) ==
    IF count <= 0
    THEN Returned(<<>>, r)
    ELSE LET first == generate_password(length, use_uppercase, use_digits, use_special, r)
         IN  IF first.raised
             THEN Returned(<<>>, first.rng)
             ELSE LET rest == generate_multiple_swallow(count - 1, length, use_uppercase,
                                                        use_digits, use_special, first.rng)
                  IN  Returned(<<first.value>> \o rest.value, rest.rng)

RECURSIVE generate_multiple(_, _, _, _, _, _)
generate_multiple(count, length, use_uppercase, use_digits, use_special, r) ==
    IF count <= 0
    THEN Returned(<<>>, r)
    ELSE LET first == generate_password(length, use_uppercase, use_digits, use_special, r)
         IN  IF first.raised
             THEN Raised(first.rng)
             ELSE LET rest == generate_multiple(count - 1, length, use_uppercase,
                                                use_digits, use_special, first.rng)
                  IN  IF rest.raised
                      THEN Raised(rest.rng)
                      ELSE Returned(<<first.value>> \o rest.value, rest.rng)

----------------------------------------------------------------------------
(* PasswordGenerator.calculate_strength *)

\* raw_score with > for >= in the length tiers
raw_score_strict(pw) ==
    LET s1 == IF Len(pw) > 12 THEN 25
              ELSE IF Len(pw) > 8 THEN 15
              ELSE 5
        s2 == IF any_islower(pw) THEN s1 + 15 ELSE s1
        s3 == IF any_isupper(pw) THEN s2 + 20 ELSE s2
        s4 == IF any_isdigit(pw) THEN s3 + 20 ELSE s3
        s5 == IF any_ispunct(pw) THEN s4 + 20 ELSE s4
    IN  s5

\* raw_score with 25 for 15 as the lowercase contribution
raw_score_heavy(pw) ==
    LET s1 == IF Len(pw) >= 12 THEN 25
              ELSE IF Len(pw) >= 8 THEN 15
              ELSE 5
        s2 == IF any_islower(pw) THEN s1 + 25 ELSE s1
        s3 == IF any_isupper(pw) THEN s2 + 20 ELSE s2
        s4 == IF any_isdigit(pw) THEN s3 + 20 ELSE s3
        s5 == IF any_ispunct(pw) THEN s4 + 20 ELSE s4
    IN  s5

\* raw_score with all(...) for any(...) in the character variety tests
raw_score_all(pw) ==
    LET s1 == IF Len(pw) >= 12 THEN 25
              ELSE IF Len(pw) >= 8 THEN 15
              ELSE 5
        s2 == IF \A i \in 1..Len(pw) : islower(pw[i]) THEN s1 + 15 ELSE s1
        s3 == IF \A i \in 1..Len(pw) : isupper(pw[i]) THEN s2 + 20 ELSE s2
        s4 == IF \A i \in 1..Len(pw) : isdigit(pw[i]) THEN s3 + 20 ELSE s3
        s5 == IF \A i \in 1..Len(pw) : ispunct(pw[i]) THEN s4 + 20 ELSE s4
    IN  s5

\* the local variable score just before the return statement
raw_score(pw) ==
    LET s0 == 0
        s1 == IF Len(pw) >= 12 THEN s0 + 25
              ELSE IF Len(pw) >= 8 THEN s0 + 15
              ELSE s0 + 5
        s2 == IF any_islower(pw) THEN s1 + 15 ELSE s1
        s3 == IF any_isupper(pw) THEN s2 + 20 ELSE s2
        s4 == IF any_isdigit(pw) THEN s3 + 20 ELSE s3
        s5 == IF any_ispunct(pw) THEN s4 + 20 ELSE s4
    IN  s5

min(a, b) == IF a <= b THEN a ELSE b

calculate_strength(pw) == min(raw_score(pw), 100)

----------------------------------------------------------------------------
(* PasswordGenerator.get_strength_label *)

\* get_strength_label with > for >= at every threshold
get_strength_label_strict(s) ==
    IF s > 80 THEN "Strong"
    ELSE IF s > 60 THEN "Moderate"
    ELSE IF s > 40 THEN "Weak"
    ELSE "Very Weak"

get_strength_label(s) ==
    IF s >= 80 THEN "Strong"
    ELSE IF s >= 60 THEN "Moderate"
    ELSE IF s >= 40 THEN "Weak"
    ELSE "Very Weak"

----------------------------------------------------------------------------
(* Direct calls on a PasswordGenerator *)

\* the length used by the tests that look for every enabled class
LongLen == 50

Lengths == (-1..MaxLen) \cup {LongLen}
Counts == -1..MaxCount

\* the calls a caller can make: the operation and its arguments
Calls ==
    [op : {"generate_password"}, length : Lengths,
     use_uppercase : BOOLEAN, use_digits : BOOLEAN, use_special : BOOLEAN]
    \cup
    [op : {"generate_multiple"}, count : Counts, length : Lengths,
     use_uppercase : BOOLEAN, use_digits : BOOLEAN, use_special : BOOLEAN]

NoResult == [done |-> FALSE, raised |-> FALSE, value |-> <<>>]
Outcome(res) == [done |-> TRUE, raised |-> res.raised, value |-> res.value]

\* a freshly seeded random module and a caller about to make one of the calls
NoBase == [set |-> FALSE, password |-> <<>>, score |-> 0, label |-> ""]
EvalIdle ==
    /\ password = <<>>
    /\ score = 0
    /\ label = ""
    /\ stage = "idle"
    /\ base = NoBase

NoLocals == [choice |-> "None", length |-> "None", count |-> "None",
             use_uppercase |-> "None", use_digits |-> "None"]
MainIdle ==
    /\ pc = "not started"
    /\ locals = NoLocals

Init ==
    /\ rng \in Seeds
    /\ call \in Calls
    /\ result = NoResult
    /\ EvalIdle
    /\ MainIdle

CallGeneratePassword ==
    /\ call.op = "generate_password"
    /\ LET res == generate_password(call.length, call.use_uppercase,
                                    call.use_digits, call.use_special, rng)
       IN  /\ result' = Outcome(res)
           /\ rng' = res.rng
    /\ UNCHANGED call
    /\ UNCHANGED evalVars
    /\ UNCHANGED mainVars

CallGenerateMultiple ==
    /\ call.op = "generate_multiple"
    /\ LET res == generate_multiple(call.count, call.length, call.use_uppercase,
                                    call.use_digits, call.use_special, rng)
       IN  /\ result' = Outcome(res)
           /\ rng' = res.rng
    /\ UNCHANGED call
    /\ UNCHANGED evalVars
    /\ UNCHANGED mainVars

Next ==
    \/ CallGeneratePassword
    \/ CallGenerateMultiple

Spec == Init /\ [][Next]_vars

----------------------------------------------------------------------------
(* Evaluating strings: calculate_strength, then get_strength_label *)

\* longest head of an input string; the rest repeats the head's last character
MaxHead == 3
\* most repetitions of the last character
MaxPad == 12
\* longest string put before or after an evaluated password
MaxExt == 1
\* how far below 0 and above 100 the scores handed to get_strength_label go
ScoreMargin == 10

\* a character that is in none of the four classes
whitespace == <<" ">>

Alphabet == Range(lowercase) \cup Range(uppercase) \cup Range(digits)
            \cup Range(punctuation) \cup Range(whitespace)

StringsUpTo(n) == UNION {[1..k -> Alphabet] : k \in 0..n}

Pad(h, n) == IF Len(h) = 0 THEN h ELSE h \o [i \in 1..n |-> h[Len(h)]]

StrengthInputs == {Pad(h, n) : h \in StringsUpTo(MaxHead), n \in 0..MaxPad}
Extensions == StringsUpTo(MaxExt)
ScoreInputs == (0 - ScoreMargin)..(100 + ScoreMargin)

ApiIdle ==
    /\ rng = <<0>>
    /\ call = [op |-> "none"]
    /\ result = NoResult

\* either a string about to be scored, or an integer about to be labelled
InitEval ==
    /\ ApiIdle
    /\ MainIdle
    /\ base = NoBase
    /\ label = ""
    /\ \/ /\ stage = "string"
          /\ password \in StrengthInputs
          /\ score = 0
       \/ /\ stage = "integer"
          /\ password = <<>>
          /\ score \in ScoreInputs

CalculateStrength ==
    /\ stage = "string"
    /\ score' = calculate_strength(password)
    /\ stage' = "scored"
    /\ UNCHANGED <<password, label, base>>
    /\ UNCHANGED apiVars
    /\ UNCHANGED mainVars

GetStrengthLabel ==
    /\ stage \in {"scored", "integer"}
    /\ label' = get_strength_label(score)
    /\ stage' = IF stage = "scored" THEN "labelled" ELSE "labelled_integer"
    /\ UNCHANGED <<password, score, base>>
    /\ UNCHANGED apiVars
    /\ UNCHANGED mainVars

\* the caller evaluates p + q or q + p after it has evaluated p
Extend ==
    /\ stage = "labelled"
    /\ ~base.set
    /\ \E q \in Extensions :
          \/ password' = password \o q
          \/ password' = q \o password
    /\ base' = [set |-> TRUE, password |-> password, score |-> score, label |-> label]
    /\ stage' = "string"
    /\ UNCHANGED <<score, label>>
    /\ UNCHANGED apiVars
    /\ UNCHANGED mainVars

NextEval ==
    \/ CalculateStrength
    \/ GetStrengthLabel
    \/ Extend

SpecEval == InitEval /\ [][NextEval]_vars

----------------------------------------------------------------------------
(* Console input: what input() returns and how the program reads it *)

\* the lines a user types at a prompt
Lines ==
    { <<"1">>, <<"2">>, <<"3">>, <<"4">>, <<" ", "4", " ">>, <<>>,
      <<"0">>, <<"-", "1">>, <<"2", "0">>, <<"2", "1">>,
      <<"1", "2", "8">>, <<"1", "2", "9">>, <<"a", "b", "c">>,
      <<"y">>, <<"Y", "e", "s">>, <<"n">>, <<"N", "O", " ">> }

\* str.strip(): leading and trailing whitespace removed
RECURSIVE lstrip(_)
lstrip(s) == IF Len(s) > 0 /\ s[1] = " " THEN lstrip(Tail(s)) ELSE s
RECURSIVE rstrip(_)
rstrip(s) == IF Len(s) > 0 /\ s[Len(s)] = " " THEN rstrip(SubSeq(s, 1, Len(s) - 1)) ELSE s
strip(s) == rstrip(lstrip(s))

\* str.lower() on the letters the lines use
lower_char(c) ==
    CASE c = "Y" -> "y"
      [] c = "E" -> "e"
      [] c = "S" -> "s"
      [] c = "N" -> "n"
      [] c = "O" -> "o"
      [] OTHER -> c
lower(s) == [i \in 1..Len(s) |-> lower_char(s[i])]

\* int(str): surrounding whitespace and one sign allowed, then decimal digits;
\* anything else raises ValueError
DecimalDigits == <<"0", "1", "2", "3", "4", "5", "6", "7", "8", "9">>
digit_value(c) == CHOOSE d \in 0..9 : DecimalDigits[d + 1] = c
RECURSIVE decimal_value(_)
decimal_value(s) ==
    IF Len(s) = 0 THEN 0
    ELSE 10 * decimal_value(SubSeq(s, 1, Len(s) - 1)) + digit_value(s[Len(s)])
int(s) ==
    LET t == strip(s)
        signed == Len(t) > 0 /\ t[1] \in {"+", "-"}
        body == IF signed THEN Tail(t) ELSE t
    IN  IF Len(body) = 0 \/ \E i \in 1..Len(body) : body[i] \notin Range(DecimalDigits)
        THEN [ok |-> FALSE, value |-> 0]
        ELSE [ok |-> TRUE,
              value |-> IF signed /\ t[1] = "-" THEN 0 - decimal_value(body)
                        ELSE decimal_value(body)]

\* get_int_input with the `continue` after the min_val message lost
get_int_input_no_continue(line, min_val, max_val) ==
    LET parsed == int(line)
    IN  IF ~parsed.ok THEN [returned |-> FALSE, value |-> 0]
        ELSE IF parsed.value < min_val THEN [returned |-> TRUE, value |-> parsed.value]
        ELSE IF max_val # 0 /\ parsed.value > max_val THEN [returned |-> FALSE, value |-> 0]
        ELSE [returned |-> TRUE, value |-> parsed.value]

\* one turn of get_int_input's loop on the line read: the value returned, or
\* another turn (max_val = 0 stands for a falsy max_val)
get_int_input(line, min_val, max_val) ==
    LET parsed == int(line)
    IN  IF ~parsed.ok THEN [returned |-> FALSE, value |-> 0]
        ELSE IF parsed.value < min_val THEN [returned |-> FALSE, value |-> 0]
        ELSE IF max_val # 0 /\ parsed.value > max_val THEN [returned |-> FALSE, value |-> 0]
        ELSE [returned |-> TRUE, value |-> parsed.value]

\* one turn of get_yes_no's loop on the line read
get_yes_no(line) ==
    LET response == lower(strip(line))
    IN  IF response \in {<<"y">>, <<"y", "e", "s">>} THEN [returned |-> TRUE, value |-> TRUE]
        ELSE IF response \in {<<"n">>, <<"n", "o">>} THEN [returned |-> TRUE, value |-> FALSE]
        ELSE [returned |-> FALSE, value |-> FALSE]

----------------------------------------------------------------------------
(* main(): one action per prompt, from the line read to the next prompt.   *)
(* A local variable is kept only while it is live: every branch assigns    *)
(* its variables before it reads them, so reading the next choice drops    *)
(* what the previous branch left behind.                                   *)

\* the bounds main() passes to get_int_input
LengthMin == 4
LengthMax == 128
CountMin == 1
CountMax == 20

\* an uncaught ValueError ends main() with a traceback
AfterCall(res) == IF res.raised THEN "crashed" ELSE "menu"

\* for i, pwd in enumerate(passwords, 1): score = calculate_strength(pwd)
LastOf(passwords) == IF Len(passwords) = 0 THEN <<>> ELSE passwords[Len(passwords)]

\* longest period of the raw-draw streams the menu loop runs on
MainPeriod == 2

InitMain ==
    /\ rng \in {r \in Seeds : Len(r) <= MainPeriod}
    /\ call = [op |-> "none"]
    /\ result = NoResult
    /\ EvalIdle
    /\ pc = "menu"
    /\ locals = NoLocals

\* choice = input("Enter your choice (1-4): ").strip() and the branch taken
Menu ==
    /\ pc = "menu"
    /\ \E line \in Lines :
          LET choice == strip(line)
          IN  /\ locals' = [NoLocals EXCEPT !.choice = choice]
              /\ pc' = CASE choice = <<"1">> -> "length1"
                         [] choice = <<"2">> -> "count2"
                         [] choice = <<"3">> -> "length3"
                         [] choice = <<"4">> -> "done"
                         [] OTHER -> "menu"
    /\ call' = [op |-> "none"]
    /\ result' = NoResult
    /\ password' = <<>>
    /\ score' = 0
    /\ label' = ""
    /\ UNCHANGED <<rng, stage, base>>

\* choice 1: length read, password generated with the defaults, scored, labelled
Length1 ==
    /\ pc = "length1"
    /\ \E line \in Lines :
          LET got == get_int_input(line, LengthMin, LengthMax)
              res == generate_password(got.value, TRUE, TRUE, FALSE, rng)
          IN  IF ~got.returned
              THEN UNCHANGED vars
              ELSE /\ locals' = [locals EXCEPT !.length = got.value]
                   /\ call' = [op |-> "generate_password", length |-> got.value,
                               use_uppercase |-> TRUE, use_digits |-> TRUE,
                               use_special |-> FALSE]
                   /\ result' = Outcome(res)
                   /\ rng' = res.rng
                   /\ pc' = AfterCall(res)
                   /\ password' = res.value
                   /\ score' = IF res.raised THEN 0 ELSE calculate_strength(res.value)
                   /\ label' = IF res.raised THEN ""
                               ELSE get_strength_label(calculate_strength(res.value))
                   /\ UNCHANGED <<stage, base>>

\* choice 2: the count
Count2 ==
    /\ pc = "count2"
    /\ \E line \in Lines :
          LET got == get_int_input(line, CountMin, CountMax)
          IN  IF ~got.returned
              THEN UNCHANGED vars
              ELSE /\ locals' = [locals EXCEPT !.count = got.value]
                   /\ pc' = "length2"
                   /\ UNCHANGED <<apiVars, evalVars>>

\* choice 2: length read, the batch generated, every element scored
Length2 ==
    /\ pc = "length2"
    /\ \E line \in Lines :
          LET got == get_int_input(line, LengthMin, LengthMax)
              res == generate_multiple(locals.count, got.value, TRUE, TRUE, FALSE, rng)
          IN  IF ~got.returned
              THEN UNCHANGED vars
              ELSE /\ locals' = [locals EXCEPT !.length = got.value]
                   /\ call' = [op |-> "generate_multiple", count |-> locals.count,
                               length |-> got.value, use_uppercase |-> TRUE,
                               use_digits |-> TRUE, use_special |-> FALSE]
                   /\ result' = Outcome(res)
                   /\ rng' = res.rng
                   /\ pc' = AfterCall(res)
                   /\ password' = LastOf(res.value)
                   /\ score' = IF res.raised \/ Len(res.value) = 0 THEN 0
                               ELSE calculate_strength(LastOf(res.value))
                   /\ UNCHANGED <<label, stage, base>>

\* choice 3: the length
Length3 ==
    /\ pc = "length3"
    /\ \E line \in Lines :
          LET got == get_int_input(line, LengthMin, LengthMax)
          IN  IF ~got.returned
              THEN UNCHANGED vars
              ELSE /\ locals' = [locals EXCEPT !.length = got.value]
                   /\ pc' = "uppercase3"
                   /\ UNCHANGED <<apiVars, evalVars>>

\* choice 3: include uppercase letters?
Uppercase3 ==
    /\ pc = "uppercase3"
    /\ \E line \in Lines :
          LET got == get_yes_no(line)
          IN  IF ~got.returned
              THEN UNCHANGED vars
              ELSE /\ locals' = [locals EXCEPT !.use_uppercase = got.value]
                   /\ pc' = "digits3"
                   /\ UNCHANGED <<apiVars, evalVars>>

\* choice 3: include numbers?
Digits3 ==
    /\ pc = "digits3"
    /\ \E line \in Lines :
          LET got == get_yes_no(line)
          IN  IF ~got.returned
              THEN UNCHANGED vars
              ELSE /\ locals' = [locals EXCEPT !.use_digits = got.value]
                   /\ pc' = "special3"
                   /\ UNCHANGED <<apiVars, evalVars>>

\* choice 3: include special characters? then the password generated, scored, labelled
Special3 ==
    /\ pc = "special3"
    /\ \E line \in Lines :
          LET got == get_yes_no(line)
              res == generate_password(locals.length, locals.use_uppercase,
                                       locals.use_digits, got.value, rng)
          IN  IF ~got.returned
              THEN UNCHANGED vars
              ELSE /\ call' = [op |-> "generate_password", length |-> locals.length,
                               use_uppercase |-> locals.use_uppercase,
                               use_digits |-> locals.use_digits,
                               use_special |-> got.value]
                   /\ result' = Outcome(res)
                   /\ rng' = res.rng
                   /\ pc' = AfterCall(res)
                   /\ password' = res.value
                   /\ score' = IF res.raised THEN 0 ELSE calculate_strength(res.value)
                   /\ label' = IF res.raised THEN ""
                               ELSE get_strength_label(calculate_strength(res.value))
                   /\ UNCHANGED <<locals, stage, base>>

NextMain ==
    \/ Menu
    \/ Length1
    \/ Count2
    \/ Length2
    \/ Length3
    \/ Uppercase3
    \/ Digits3
    \/ Special3

SpecMain == InitMain /\ [][NextMain]_vars

----------------------------------------------------------------------------
(* Properties of generate_password and generate_multiple, checked under Spec *)

\* the class of a character, read off the character itself
ClassOf(c) ==
    CASE c \in {"a"} -> "lowercase"
      [] c \in {"A"} -> "uppercase"
      [] c \in {"0"} -> "digit"
      [] c \in {"!"} -> "special"
      [] OTHER -> "other"

\* the classes the options of the call enable
EnabledClasses(c) ==
    {"lowercase"}
        \cup (IF c.use_uppercase THEN {"uppercase"} ELSE {})
        \cup (IF c.use_digits THEN {"digit"} ELSE {})
        \cup (IF c.use_special THEN {"special"} ELSE {})

ClassesIn(pw) == {ClassOf(pw[i]) : i \in 1..Len(pw)}

\* pw has exactly the call's length and only characters of enabled classes
WellFormed(pw, c) ==
    /\ Len(pw) = c.length
    /\ ClassesIn(pw) \subseteq EnabledClasses(c)

Returns(op) == result.done /\ call.op = op

\* C1: for every length >= 4 and every combination of the options, a password
\* returned by generate_password has exactly `length` characters, each of the
\* lowercase class or of an enabled class; no character of a disabled class
\* appears.
C1_LengthAndPool ==
    (Returns("generate_password") /\ call.length >= 4) =>
        /\ ~result.raised
        /\ WellFormed(result.value, call)
        /\ (~call.use_uppercase => "uppercase" \notin ClassesIn(result.value))
        /\ (~call.use_digits => "digit" \notin ClassesIn(result.value))
        /\ (~call.use_special => "special" \notin ClassesIn(result.value))

\* a long password with uppercase disabled, made of lowercase letters and digits
C1_Witness ==
    /\ Returns("generate_password")
    /\ call.length = LongLen
    /\ ~call.use_uppercase /\ call.use_digits /\ call.use_special
    /\ ClassesIn(result.value) = {"lowercase", "digit"}

\* C2: generate_password raises ValueError if and only if length < 4, under
\* any option combination, and produces no password when it raises.
C2_InvalidLengthIff ==
    Returns("generate_password") =>
        /\ (result.raised <=> call.length < 4)
        /\ (result.raised => result.value = <<>>)

\* a negative length rejected with every class enabled
C2_Witness ==
    /\ Returns("generate_password")
    /\ call.length = -1
    /\ call.use_uppercase /\ call.use_digits /\ call.use_special
    /\ result.raised

\* C3: for every count >= 1 and length >= 4, generate_multiple returns a list of
\* exactly `count` passwords, each of exactly `length` characters of the enabled
\* pool; the list is not deduplicated.
C3_BatchCount ==
    (Returns("generate_multiple") /\ call.count >= 1 /\ call.length >= 4) =>
        /\ ~result.raised
        /\ Len(result.value) = call.count
        /\ \A k \in 1..Len(result.value) : WellFormed(result.value[k], call)

\* a batch of MaxCount passwords, all of them equal, every class enabled
C3_Witness ==
    /\ Returns("generate_multiple")
    /\ call.count = MaxCount
    /\ call.use_uppercase /\ call.use_digits /\ call.use_special
    /\ Len(result.value) = MaxCount
    /\ \A k \in 1..Len(result.value) : result.value[k] = result.value[1]

\* C4 as stated: whenever the requested length is < 4, generate_multiple raises
\* ValueError and returns no list.
C4_AsStated ==
    (Returns("generate_multiple") /\ call.length < 4) =>
        /\ result.raised
        /\ result.value = <<>>

\* C4, amended: with count >= 1, generate_multiple raises ValueError exactly when
\* length < 4, and then returns no list; with count <= 0 no element is generated,
\* so the call returns the empty list whatever the length. No count is rejected
\* when length >= 4.
C4_Amended ==
    Returns("generate_multiple") =>
        /\ (call.count >= 1 => (result.raised <=> call.length < 4))
        /\ (call.count <= 0 => ~result.raised)
        /\ ((result.raised \/ call.count <= 0) => result.value = <<>>)

\* a batch of two asked for with length 3: the error, no list
C4_Witness ==
    /\ Returns("generate_multiple")
    /\ call.count = 2
    /\ call.length = 3
    /\ result.raised

----------------------------------------------------------------------------
(* Properties of calculate_strength and get_strength_label, checked under  *)
(* SpecEval                                                                *)

Scored == stage \in {"scored", "labelled"}

Has(pw, class) == IF class \in ClassesIn(pw) THEN 1 ELSE 0

LengthPoints(pw) == IF Len(pw) >= 12 THEN 25 ELSE IF Len(pw) >= 8 THEN 15 ELSE 5

ExpectedSum(pw) ==
    LengthPoints(pw) + 15 * Has(pw, "lowercase") + 20 * Has(pw, "uppercase")
        + 20 * Has(pw, "digit") + 20 * Has(pw, "special")

\* C5: calculate_strength returns min(L + 15*hasLower + 20*hasUpper
\* + 20*hasDigit + 20*hasSpecial, 100), L being 25 from length 12, 15 from
\* length 8, else 5; the empty string scores 5.
C5_ScoreFormula ==
    Scored =>
        /\ score = (IF ExpectedSum(password) > 100 THEN 100 ELSE ExpectedSum(password))
        /\ (password = <<>> => score = 5)

\* the empty string, scored 5
C5_Witness ==
    /\ stage = "scored"
    /\ password = <<>>
    /\ score = 5

\* C6: the score is an integer between 0 and 100, and the sum before the
\* min(..., 100) never exceeds 100, so the min leaves it as it is.
C6_ScoreRange ==
    Scored =>
        /\ score \in 0..100
        /\ raw_score(password) <= 100
        /\ score = raw_score(password)

\* a string of at least 12 characters with all four classes: the sum is 100
C6_Witness ==
    /\ stage = "scored"
    /\ Len(password) >= 12
    /\ ClassesIn(password) = {"lowercase", "uppercase", "digit", "special"}
    /\ score = 100

\* C7: get_strength_label maps every integer: "Strong" from 80 up (above 100
\* too), "Moderate" from 60 to 79, "Weak" from 40 to 59, "Very Weak" below 40,
\* negative scores included.
C7_LabelThresholds ==
    stage \in {"labelled", "labelled_integer"} =>
        /\ (score >= 80 <=> label = "Strong")
        /\ ((60 <= score /\ score < 80) <=> label = "Moderate")
        /\ ((40 <= score /\ score < 60) <=> label = "Weak")
        /\ (score < 40 <=> label = "Very Weak")

\* the boundary 80, labelled "Strong"
C7_Witness ==
    /\ stage = "labelled_integer"
    /\ score = 80
    /\ label = "Strong"

LabelRank(l) ==
    CASE l = "Very Weak" -> 0
      [] l = "Weak" -> 1
      [] l = "Moderate" -> 2
      [] l = "Strong" -> 3

\* C10: for all strings p and q, the scores of p + q and of q + p are at least
\* the score of p, and their label is never a weaker one than p's.
C10_Monotone ==
    base.set =>
        /\ (Scored => score >= base.score)
        /\ (stage = "labelled" => LabelRank(label) >= LabelRank(base.label))

\* q put before p, lifting the score and the label
C10_Witness ==
    /\ base.set
    /\ stage = "labelled"
    /\ Len(password) > Len(base.password)
    /\ SubSeq(password, Len(password) - Len(base.password) + 1, Len(password))
           = base.password
    /\ SubSeq(password, 1, Len(base.password)) # base.password
    /\ score > base.score
    /\ LabelRank(label) > LabelRank(base.label)

----------------------------------------------------------------------------
(* Properties of the menu loop, checked under SpecMain *)

====
